---- MODULE Spec2Model ----
(***************************************************************************)
(* A model of egui-grid: the Sizing resolver (src/sizing.rs), the          *)
(* GridBuilder and its flattening into rectangles (src/builder.rs) and     *)
(* the Grid consumer (src/grid.rs).                                        *)
(*                                                                         *)
(* f32 values are modelled as exact rationals <<n, d>> in lowest terms     *)
(* with d > 0; f32::INFINITY is <<1, 0>>.  Rounding of f32 is not          *)
(* modelled.                                                               *)
(***************************************************************************)
EXTENDS Integers, Sequences, FiniteSets, TLC

VARIABLES
    phase,      \* "build" | "show" | "panic" | "sizing" | "sized"
    gb,         \* the GridBuilder under construction
    op,         \* the last builder call, [name, ...]
    created,    \* (row, cell) indices created by the last cell/cells call
    fresh,      \* only with_margin/with_layout calls since the last cell/cells call
    rowLast,    \* a row was created and no cell/cells call was made since
    ncalls,     \* number of builder calls made
    whole,      \* the rect handed to as_rects by show
    g_cells,    \* Grid.cells
    g_pointer,  \* Grid.pointer
    g_bounds,   \* Grid.bounds
    g_panic,    \* the panic that ended the consumer, NoPanic when none
    g_ok,       \* number of consumer calls that returned
    g_last,     \* the last consumer call, "cell" or "empty", "" when none
    s_in,       \* input of Sizing::to_lengths: [sizes, length, spacing]
    s_out       \* its output

builderVars == <<gb, created, fresh, rowLast, ncalls>>
gridVars == <<whole, g_cells, g_pointer, g_bounds, g_panic, g_ok, g_last>>
sizingVars == <<s_in, s_out>>
vars == <<phase, op, builderVars, gridVars, sizingVars>>

-----------------------------------------------------------------------------
(* f32 as exact rationals *)

RECURSIVE GCD(_, _)
GCD(a, b) == IF b = 0 THEN a ELSE GCD(b, a % b)

AbsInt(n) == IF n < 0 THEN -n ELSE n

Norm(n, d) ==
    LET g == GCD(AbsInt(n), d)
    IN  <<n \div g, d \div g>>

R(n) == <<n, 1>>
Frac(n, d) == Norm(n, d)
INFINITY == <<1, 0>>
ZERO == R(0)

Add(a, b) == Norm(a[1] * b[2] + b[1] * a[2], a[2] * b[2])
Neg(a) == <<-a[1], a[2]>>
Sub(a, b) == Add(a, Neg(b))
Mul(a, b) == Norm(a[1] * b[1], a[2] * b[2])
DivN(a, k) == Norm(a[1], a[2] * k)
Lt(a, b) == a[1] * b[2] < b[1] * a[2]
Le(a, b) == a[1] * b[2] <= b[1] * a[2]
FMax(a, b) == IF Lt(a, b) THEN b ELSE a
Floor(a) == R(a[1] \div a[2])

\* f32::clamp(self, min, max), for min <= max
Clamp(x, min, max) == IF Lt(x, min) THEN min ELSE IF Lt(max, x) THEN max ELSE x

-----------------------------------------------------------------------------
(* egui_extras::Size *)

Absolute(initial) == [kind |-> "Absolute", val |-> initial, min |-> ZERO, max |-> INFINITY]
Relative(fraction, min, max) == [kind |-> "Relative", val |-> fraction, min |-> min, max |-> max]
Remainder(min, max) == [kind |-> "Remainder", val |-> ZERO, min |-> min, max |-> max]

-----------------------------------------------------------------------------
(* Sizing::to_lengths *)

\* the closure of the first map: the non-remainder length of one size
NonRemainder(size, length) ==
    CASE size.kind = "Absolute" -> size.val
      [] size.kind = "Relative" -> Clamp(Mul(length, size.val), size.min, size.max)
      [] OTHER -> ZERO

RECURSIVE SumNonRemainder(_, _)
SumNonRemainder(sizes, length) ==
    IF sizes = <<>> THEN ZERO
    ELSE Add(NonRemainder(Head(sizes), length), SumNonRemainder(Tail(sizes), length))

RECURSIVE CountRemainders(_)
CountRemainders(sizes) ==
    IF sizes = <<>> THEN 0
    ELSE (IF Head(sizes).kind = "Remainder" THEN 1 ELSE 0) + CountRemainders(Tail(sizes))

\* the for_each of the adjustment pass: st = [remainder_length, remainders]
RECURSIVE AdjustPass(_, _, _)
AdjustPass(sizes, avg, st) ==
    IF sizes = <<>> THEN st
    ELSE LET size == Head(sizes)
             hit == size.kind = "Remainder" /\ Lt(avg, size.min)
         IN  AdjustPass(Tail(sizes), avg,
                 IF hit THEN [remainder_length |-> Sub(st.remainder_length, size.min),
                              remainders |-> st.remainders - 1]
                 ELSE st)

\* a faulty variant of avg_remainder_length: the recomputed average is floored as the first one is
avg_remainder_length_floored(sizes, length, spacing) ==
    LET remainders == CountRemainders(sizes)
        sum_non_remainder == Add(SumNonRemainder(sizes, length),
                                 Mul(spacing, R(Len(sizes) - 1)))
    IN  IF remainders = 0 THEN ZERO
        ELSE LET remainder_length == Sub(length, sum_non_remainder)
                 avg == Floor(FMax(ZERO, DivN(remainder_length, remainders)))
                 st == AdjustPass(sizes, avg, [remainder_length |-> remainder_length,
                                               remainders |-> remainders])
             IN  IF st.remainders > 0
                 THEN Floor(FMax(ZERO, DivN(st.remainder_length, st.remainders)))
                 ELSE ZERO

avg_remainder_length(sizes, length, spacing) ==
    LET remainders == CountRemainders(sizes)
        sum_non_remainder == Add(SumNonRemainder(sizes, length),
                                 Mul(spacing, R(Len(sizes) - 1)))
    IN  IF remainders = 0 THEN ZERO
        ELSE LET remainder_length == Sub(length, sum_non_remainder)
                 avg == Floor(FMax(ZERO, DivN(remainder_length, remainders)))
                 st == AdjustPass(sizes, avg, [remainder_length |-> remainder_length,
                                               remainders |-> remainders])
             IN  IF st.remainders > 0
                 THEN FMax(ZERO, DivN(st.remainder_length, st.remainders))
                 ELSE ZERO

\* a faulty variant of FinalLength: a Remainder is held to its minimum only, its maximum is forgotten
FinalLength_no_upper(size, length, avg) ==
    CASE size.kind = "Absolute" -> size.val
      [] size.kind = "Relative" -> Clamp(Mul(length, size.val), size.min, size.max)
      [] OTHER -> FMax(avg, size.min)

\* the closure of the final map
FinalLength(size, length, avg) ==
    CASE size.kind = "Absolute" -> size.val
      [] size.kind = "Relative" -> Clamp(Mul(length, size.val), size.min, size.max)
      [] OTHER -> Clamp(avg, size.min, size.max)

to_lengths(sizes, length, spacing) ==
    IF sizes = <<>> THEN <<>>
    ELSE LET avg == avg_remainder_length(sizes, length, spacing)
         IN  [i \in 1..Len(sizes) |-> FinalLength(sizes[i], length, avg)]

-----------------------------------------------------------------------------
(* egui geometry *)

Pos2(x, y) == [x |-> x, y |-> y]
Vec2(x, y) == [x |-> x, y |-> y]
Rect(min, max) == [min |-> min, max |-> max]
Margin(left, right, top, bottom) ==
    [left |-> left, right |-> right, top |-> top, bottom |-> bottom]
Margin_same(m) == Margin(m, m, m, m)
width(rect) == Sub(rect.max.x, rect.min.x)
height(rect) == Sub(rect.max.y, rect.min.y)

-----------------------------------------------------------------------------
(* Row, Cell and the GridBuilder's building operations.  Option<GridBuilder> *)
(* is a sequence of length 0 (None) or 1 (Some).  creation_cache holds the   *)
(* zero-based (row, cell) pairs of the source.                               *)

Row_new(size, align) == [size |-> size, cells |-> <<>>, align |-> align]
Cell_new(size, margin, layout) ==
    [size |-> size, group |-> <<>>, margin |-> margin, layout |-> layout]
Layout_default == "top_down"

new ==
    [units |-> <<>>, spacing |-> Vec2(ZERO, ZERO), row_as_col |-> FALSE,
     creation_cache |-> <<>>]

spacing(g, w, h) == [g EXCEPT !.spacing = Vec2(w, h)]
spacing_vec2(g, vec) == [g EXCEPT !.spacing = vec]
inherit_spacing(g, item_spacing) == [g EXCEPT !.spacing = item_spacing]

new_row(g, size) == [g EXCEPT !.units = Append(@, Row_new(size, "Min"))]
new_row_align(g, size, al) == [g EXCEPT !.units = Append(@, Row_new(size, al))]

align(g, al) ==
    LET len == Len(g.units)
    IN  IF len > 0 THEN [g EXCEPT !.units[len].align = al] ELSE g

\* for c in 1..=amount { push cell; push (len-1, cel_len+c-1) }
RECURSIVE add_cells_loop(_, _, _, _, _, _)
add_cells_loop(g, size, amount, margin, cel_len, c) ==
    IF c > amount THEN g
    ELSE LET len == Len(g.units)
         IN  add_cells_loop(
                 [g EXCEPT !.units[len].cells = Append(@, Cell_new(size, margin, Layout_default)),
                           !.creation_cache = Append(@, <<len - 1, cel_len + c - 1>>)],
                 size, amount, margin, cel_len, c + 1)

add_cells(g, size, amount, margin) ==
    LET len == Len(g.units)
    IN  IF len > 0
        THEN add_cells_loop([g EXCEPT !.creation_cache = <<>>], size, amount, margin,
                            Len(g.units[len].cells), 1)
        ELSE g

cell(g, size) == add_cells(g, size, 1, Margin_same(ZERO))
cells(g, size, amount) == add_cells(g, size, amount, Margin_same(ZERO))

\* for item in creation_cache.iter() { units[item.0].cells[item.1].edit_margin(margin) }
RECURSIVE edit_margin_loop(_, _, _)
edit_margin_loop(units, cache, margin) ==
    IF cache = <<>> THEN units
    ELSE LET item == Head(cache)
         IN  edit_margin_loop(
                 [units EXCEPT ![item[1] + 1].cells[item[2] + 1].margin = margin],
                 Tail(cache), margin)

\* a faulty variant of with_margin: only the last cell of the batch is edited
with_margin_last_only(g, margin) ==
    IF Len(g.creation_cache) > 0
    THEN [g EXCEPT !.units = edit_margin_loop(g.units,
                                 <<g.creation_cache[Len(g.creation_cache)]>>, margin)]
    ELSE g

with_margin(g, margin) ==
    IF Len(g.creation_cache) > 0
    THEN [g EXCEPT !.units = edit_margin_loop(g.units, g.creation_cache, margin)]
    ELSE g

RECURSIVE edit_layout_loop(_, _, _)
edit_layout_loop(units, cache, layout) ==
    IF cache = <<>> THEN units
    ELSE LET item == Head(cache)
         IN  edit_layout_loop(
                 [units EXCEPT ![item[1] + 1].cells[item[2] + 1].layout = layout],
                 Tail(cache), layout)

with_layout(g, layout) ==
    IF Len(g.creation_cache) > 0
    THEN [g EXCEPT !.units = edit_layout_loop(g.units, g.creation_cache, layout)]
    ELSE g

\* a faulty variant of nest: the grid is nested into every cell of the last batch
RECURSIVE nest_loop(_, _, _)
nest_loop(units, cache, grid) ==
    IF cache = <<>> THEN units
    ELSE nest_loop([units EXCEPT ![Head(cache)[1] + 1].cells[Head(cache)[2] + 1].group = <<grid>>],
                   Tail(cache), grid)

nest_whole_batch(g, grid) == [g EXCEPT !.units = nest_loop(g.units, g.creation_cache, grid)]

nest(g, grid) ==
    LET len == Len(g.units)
    IN  IF len > 0
        THEN LET cell_len == Len(g.units[len].cells)
             IN  IF cell_len > 0
                 THEN [g EXCEPT !.units[len].cells[cell_len].group = <<grid>>]
                 ELSE g
        ELSE g

\* `i32 as usize`: a negative index wraps to the top of the unsigned range.
\* usize is narrowed to UsizeBits bits so that its values fit TLC's 32-bit
\* integers; every Vec of the model is far shorter than 2^UsizeBits.
UsizeBits == 30
\* a faulty variant of as_usize: a negative index is clamped to 0
as_usize_saturating(i) == IF i < 0 THEN 0 ELSE i
as_usize(i) == i % (2 ^ UsizeBits)

nest_at(g, row, cel, grid) ==
    LET u_row == as_usize(row)
        u_cell == as_usize(cel)
    IN  IF u_row < Len(g.units)
        THEN IF u_cell < Len(g.units[u_row + 1].cells)
             THEN [g EXCEPT !.units[u_row + 1].cells[u_cell + 1].group = <<grid>>]
             ELSE g
        ELSE g

rows_as_columns(g, vertical) == [g EXCEPT !.row_as_col = vertical]

-----------------------------------------------------------------------------
(* Flattening: GridBuilder::as_rects and GridBuilder::get_all_layouts *)

RECURSIVE SizesOf(_)
SizesOf(items) ==
    IF items = <<>> THEN <<>> ELSE <<Head(items).size>> \o SizesOf(Tail(items))

row_set_as_f32(rows, spc, whole_len) == to_lengths(SizesOf(rows), whole_len, spc)
cell_set_as_f32(cels, spc, whole_len) == to_lengths(SizesOf(cels), whole_len, spc)

reflect(input, focal) ==
    LET offset == Vec2(Sub(input.min.x, focal.x), Sub(input.min.y, focal.y))
    IN  Rect(Pos2(Add(offset.y, focal.x), Add(offset.x, focal.y)),
             Pos2(Add(Add(offset.y, focal.x), height(input)),
                  Add(Add(offset.x, focal.y), width(input))))

\* let mut length_sum = -spacing.x; for length in cell_lengths { length_sum += length + spacing.x }
RECURSIVE length_sum_loop(_, _, _)
length_sum_loop(cell_lengths, spc, acc) ==
    IF cell_lengths = <<>> THEN acc
    ELSE length_sum_loop(Tail(cell_lengths), spc, Add(acc, Add(Head(cell_lengths), spc)))

length_sum(cell_lengths, spc) == length_sum_loop(cell_lengths, spc, Neg(spc))

\* a faulty variant of grand_offset: a centred row is moved by the whole of the free width
grand_offset_center_unhalved(al, whole_w, len_sum) ==
    CASE al = "Min" -> ZERO
      [] al = "Center" -> Sub(whole_w, len_sum)
      [] al = "Max" -> Sub(whole_w, len_sum)

grand_offset(al, whole_w, len_sum) ==
    CASE al = "Min" -> ZERO
      [] al = "Center" -> Mul(Sub(whole_w, len_sum), Frac(1, 2))
      [] al = "Max" -> Sub(whole_w, len_sum)

\* the rect of one cell at the cursor, before reflection and margins
build_rect(pointer2d, cell_len, row_len) ==
    Rect(pointer2d, Pos2(Add(pointer2d.x, cell_len), Add(pointer2d.y, row_len)))

apply_verticality(g, rect, whole_rect) ==
    IF g.row_as_col THEN reflect(rect, whole_rect.min) ELSE rect

apply_margins(rect, margin) ==
    Rect(Pos2(Add(rect.min.x, margin.left), Add(rect.min.y, margin.top)),
         Pos2(Sub(rect.max.x, margin.right), Sub(rect.max.y, margin.bottom)))

\* a faulty variant of advance: the cursor moves on by the spacing only
advance_spacing_only(pointer2d, cell_len, spc) ==
    Pos2(Add(pointer2d.x, spc), pointer2d.y)

\* pointer2d.x += cell_len + self.spacing.x
advance(pointer2d, cell_len, spc) ==
    Pos2(Add(pointer2d.x, Add(cell_len, spc)), pointer2d.y)

RECURSIVE as_rects(_, _)
RECURSIVE cell_loop(_, _, _, _, _, _, _, _)
RECURSIVE row_loop(_, _, _, _, _, _)

\* a faulty variant of handle_nested: the cell that holds a nested grid is emitted too
handle_nested_keeps_holder(rects_final, cel, rect) ==
    IF cel.group # <<>>
    THEN Append(rects_final, rect) \o as_rects(cel.group[1], rect)
    ELSE Append(rects_final, rect)

\* match &row.cells[index].group { Some(grid) => extend(grid.as_rects(rect)), None => push(rect) }
handle_nested(rects_final, cel, rect) ==
    IF cel.group # <<>>
    THEN rects_final \o as_rects(cel.group[1], rect)
    ELSE Append(rects_final, rect)

\* for cell_len in cell_lengths { ... }; the result is [rects_final, pointer2d]
cell_loop(g, whole_rect, row, row_len, cell_lengths, index, pointer2d, rects_final) ==
    IF index >= Len(cell_lengths) THEN [rects_final |-> rects_final, pointer2d |-> pointer2d]
    ELSE LET cell_len == cell_lengths[index + 1]
             rect == apply_margins(
                         apply_verticality(g, build_rect(pointer2d, cell_len, row_len), whole_rect),
                         row.cells[index + 1].margin)
         IN  cell_loop(g, whole_rect, row, row_len, cell_lengths, index + 1,
                       advance(pointer2d, cell_len, g.spacing.x),
                       handle_nested(rects_final, row.cells[index + 1], rect))

\* for row_len in row_lengths { ... }
row_loop(g, whole_rect, row_lengths, row_index, pointer2d, rects_final) ==
    IF row_index >= Len(row_lengths) THEN rects_final
    ELSE LET row == g.units[row_index + 1]
             row_len == row_lengths[row_index + 1]
             cell_lengths == cell_set_as_f32(row.cells, g.spacing.x, width(whole_rect))
             offs == grand_offset(row.align, width(whole_rect),
                                  length_sum(cell_lengths, g.spacing.x))
             done == cell_loop(g, whole_rect, row, row_len, cell_lengths, 0,
                               Pos2(Add(pointer2d.x, offs), pointer2d.y), rects_final)
         IN  row_loop(g, whole_rect, row_lengths, row_index + 1,
                      Pos2(whole_rect.min.x,
                           Add(done.pointer2d.y, Add(row_len, g.spacing.y))),
                      done.rects_final)

as_rects(g, whole_rect) ==
    row_loop(g, whole_rect,
             row_set_as_f32(g.units, g.spacing.y, height(whole_rect)),
             0, Pos2(whole_rect.min.x, whole_rect.min.y), <<>>)

RECURSIVE get_all_layouts(_)
RECURSIVE layouts_of_cells(_)

\* Cell::layout
Cell_layout(cel) ==
    IF cel.group # <<>> THEN get_all_layouts(cel.group[1]) ELSE <<cel.layout>>

layouts_of_cells(cels) ==
    IF cels = <<>> THEN <<>>
    ELSE Cell_layout(Head(cels)) \o layouts_of_cells(Tail(cels))

RECURSIVE layouts_of_rows(_)
layouts_of_rows(rows) ==
    IF rows = <<>> THEN <<>>
    ELSE layouts_of_cells(Head(rows).cells) \o layouts_of_rows(Tail(rows))

get_all_layouts(g) == layouts_of_rows(g.units)

-----------------------------------------------------------------------------
(* Bounds and input pools *)

MaxCalls == 4       \* builder calls before show
MaxRows == 2        \* rows of the grid under construction
MaxCells == 3       \* cells of one row
MaxAmount == 2      \* largest `amount` handed to cells()

SizePool == {Absolute(R(3)), Remainder(ZERO, INFINITY)}
AlignPool == {"Min", "Center", "Max"}
AmountPool == -1..MaxAmount
MarginPool == {Margin_same(Frac(1, 2)), Margin(R(1), ZERO, ZERO, ZERO)}
LayoutPool == {"right_to_left"}
IndexPool == {-1, 0, MaxCells}
SpacingPool == {Vec2(R(1), R(1))}
BoundsPool == {Rect(Pos2(ZERO, ZERO), Pos2(R(6), R(4))),
               Rect(Pos2(R(1), R(1)), Pos2(R(5), R(5)))}

\* grids handed to nest / nest_at
NestTwo == cells(new_row(new, Remainder(ZERO, INFINITY)), Remainder(ZERO, INFINITY), 2)
NestWide == cell(new_row(new, Remainder(ZERO, INFINITY)), Absolute(R(4)))
NestPool == {NestTwo, NestWide}

-----------------------------------------------------------------------------
(* The state machine: builder calls, then show, then the consumer's calls *)

NoPanic == [kind |-> "", n |-> 0]

\* the (row, cell) positions of g, one-based
AllIdx(g) ==
    UNION {{<<r, c>> : c \in 1..Len(g.units[r].cells)} : r \in 1..Len(g.units)}

Init ==
    /\ phase = "build"
    /\ gb = new
    /\ op = [name |-> "new"]
    /\ created = {}
    /\ fresh = FALSE
    /\ rowLast = FALSE
    /\ ncalls = 0
    /\ whole = Rect(Pos2(ZERO, ZERO), Pos2(ZERO, ZERO))
    /\ g_cells = <<>>
    /\ g_pointer = 0
    /\ g_bounds = Pos2(ZERO, ZERO)
    /\ g_panic = NoPanic
    /\ g_ok = 0
    /\ g_last = ""
    /\ s_in = [sizes |-> <<>>, length |-> ZERO, spacing |-> ZERO]
    /\ s_out = <<>>

\* one builder call: kind is "row", "cell", "edit" or "other"
Call(newgb, opr, kind) ==
    /\ phase = "build"
    /\ ncalls < MaxCalls
    /\ gb' = newgb
    /\ op' = opr
    /\ ncalls' = ncalls + 1
    /\ created' = IF kind = "cell" THEN AllIdx(newgb) \ AllIdx(gb) ELSE created
    /\ fresh' = CASE kind = "cell" -> TRUE [] kind = "edit" -> fresh [] OTHER -> FALSE
    /\ rowLast' = CASE kind = "row" -> TRUE [] kind = "cell" -> FALSE [] OTHER -> rowLast
    /\ UNCHANGED <<phase, gridVars, sizingVars>>

DoSpacing ==
    \E v \in SpacingPool : Call(spacing(gb, v.x, v.y), [name |-> "spacing"], "other")
DoSpacingVec2 ==
    \E v \in SpacingPool : Call(spacing_vec2(gb, v), [name |-> "spacing_vec2"], "other")
DoInheritSpacing ==
    \E v \in SpacingPool : Call(inherit_spacing(gb, v), [name |-> "inherit_spacing"], "other")
DoNewRow ==
    \E size \in SizePool :
        /\ Len(gb.units) < MaxRows
        /\ Call(new_row(gb, size), [name |-> "new_row"], "row")
DoNewRowAlign ==
    \E size \in SizePool, al \in AlignPool :
        /\ Len(gb.units) < MaxRows
        /\ Call(new_row_align(gb, size, al), [name |-> "new_row_align"], "row")
DoAlign ==
    \E al \in AlignPool : Call(align(gb, al), [name |-> "align"], "other")
RoomFor(amount) ==
    IF gb.units = <<>> THEN TRUE
    ELSE Len(gb.units[Len(gb.units)].cells) + amount <= MaxCells
DoCell ==
    \E size \in SizePool :
        /\ RoomFor(1)
        /\ Call(cell(gb, size), [name |-> "cell", size |-> size], "cell")
DoCells ==
    \E size \in SizePool, amount \in AmountPool :
        /\ RoomFor(amount)
        /\ Call(cells(gb, size, amount),
                [name |-> "cells", size |-> size, amount |-> amount], "cell")
DoWithMargin ==
    \E m \in MarginPool : Call(with_margin(gb, m), [name |-> "with_margin", margin |-> m], "edit")
DoWithLayout ==
    \E l \in LayoutPool : Call(with_layout(gb, l), [name |-> "with_layout", layout |-> l], "edit")
DoNest ==
    \E grid \in NestPool : Call(nest(gb, grid), [name |-> "nest", grid |-> grid], "other")
DoNestAt ==
    \E row \in IndexPool, cel \in IndexPool, grid \in {NestWide} :
        Call(nest_at(gb, row, cel, grid),
             [name |-> "nest_at", row |-> row, cel |-> cel, grid |-> grid], "other")
DoRowsAsColumns ==
    \E v \in BOOLEAN : Call(rows_as_columns(gb, v), [name |-> "rows_as_columns"], "other")

\* GridBuilder::show up to the call of the closure: Grid::new(ui, rects, layouts, &mut bounds)
Grid_new(rects, layouts) ==
    [i \in 1..Len(rects) |->
        [rect |-> rects[i],
         layout |-> IF i <= Len(layouts) THEN layouts[i] ELSE "none"]]

Show ==
    \E allocated_space \in BoundsPool :
        /\ phase = "build"
        /\ phase' = "show"
        /\ whole' = allocated_space
        /\ g_cells' = Grid_new(as_rects(gb, allocated_space), get_all_layouts(gb))
        /\ g_pointer' = 0
        /\ g_bounds' = Pos2(ZERO, ZERO)
        /\ op' = [name |-> "show"]
        /\ UNCHANGED <<builderVars, g_panic, g_ok, g_last, sizingVars>>

\* `if self.pointer > self.cells.len()-1 { panic!(..) }` and the indexing that
\* follows it.  cells.len()-1 is a usize subtraction: with no cells it panics
\* in a build with overflow checks and wraps to usize::MAX in one without, where
\* the guard then passes and self.cells[self.pointer] panics.
overrun_check(len, pointer) ==
    IF len = 0 THEN {"attempt to subtract with overflow", "index out of bounds"}
    ELSE IF pointer > len - 1 THEN {"Added more cells than were pre-allocated"}
    ELSE {"ok"}

\* a faulty variant of track_bounds: the bound is overwritten by the last rect's max
track_bounds_overwrite(bounds, cell_rect) == Pos2(cell_rect.max.x, cell_rect.max.y)

\* if cell_rect.max.y > bounds.y { bounds.y = .. }; if cell_rect.max.x > bounds.x { bounds.x = .. }
track_bounds(bounds, cell_rect) ==
    Pos2(IF Lt(bounds.x, cell_rect.max.x) THEN cell_rect.max.x ELSE bounds.x,
         IF Lt(bounds.y, cell_rect.max.y) THEN cell_rect.max.y ELSE bounds.y)

\* what Grid::cell and Grid::empty share: the guard, the bound and the cursor
Consume(which) ==
    /\ phase = "show"
    /\ \E outcome \in overrun_check(Len(g_cells), g_pointer) :
          IF outcome = "ok"
          THEN /\ g_bounds' = track_bounds(g_bounds, g_cells[g_pointer + 1].rect)
               /\ g_pointer' = g_pointer + 1
               /\ g_ok' = g_ok + 1
               /\ UNCHANGED <<phase, g_panic>>
          ELSE /\ phase' = "panic"
               /\ g_panic' = [kind |-> outcome, n |-> Len(g_cells)]
               /\ UNCHANGED <<g_bounds, g_pointer, g_ok>>
    /\ g_last' = which
    /\ UNCHANGED <<op, builderVars, whole, g_cells, sizingVars>>

GridCell == Consume("cell")
GridEmpty == Consume("empty")

Next ==
    \/ DoSpacing \/ DoSpacingVec2 \/ DoInheritSpacing
    \/ DoNewRow \/ DoNewRowAlign \/ DoAlign
    \/ DoCell \/ DoCells
    \/ DoWithMargin \/ DoWithLayout
    \/ DoNest \/ DoNestAt
    \/ DoRowsAsColumns
    \/ Show
    \/ GridCell \/ GridEmpty

Spec == Init /\ [][Next]_vars

\* the builder alone: the fluent calls up to, and without, show
NextBuild ==
    \/ DoSpacing \/ DoSpacingVec2 \/ DoInheritSpacing
    \/ DoNewRow \/ DoNewRowAlign \/ DoAlign
    \/ DoCell \/ DoCells
    \/ DoWithMargin \/ DoWithLayout
    \/ DoNest \/ DoNestAt
    \/ DoRowsAsColumns

SpecBuild == Init /\ [][NextBuild]_vars

-----------------------------------------------------------------------------
(* A second specification for the flattener and the consumer: the grid is    *)
(* the result of one of a family of builder programs (a first row of up to   *)
(* two cells, each possibly edited and nested into, an optional second row,  *)
(* grid-level settings), then show and the consumer's calls.                 *)

FlatSizes == {Absolute(R(2)), Remainder(ZERO, INFINITY), Relative(Frac(1, 2), ZERO, R(2))}
FlatRowSizes == {Absolute(R(2)), Remainder(ZERO, INFINITY)}
FlatMargins == <<Margin(Frac(1, 2), ZERO, Frac(1, 4), ZERO), Margin(ZERO, ZERO, R(-1), ZERO)>>
FlatLayout == "right_to_left"

NestNone == new
NestDeep ==
    rows_as_columns(
        new_row(nest(cells(new_row(new, Remainder(ZERO, INFINITY)),
                           Remainder(ZERO, INFINITY), 2),
                     NestTwo),
                Absolute(R(1))),
        TRUE)
FlatNest == <<NestTwo, NestWide, NestNone, NestDeep>>

FlatCellA == [size : FlatSizes, edit : {0, 1}, nest : 0..Len(FlatNest)]
FlatCellB == [size : FlatRowSizes, edit : {0}, nest : {0, 1}]
FlatCellSeqs ==
    {<<>>} \cup {<<a>> : a \in FlatCellA} \cup {<<a, b>> : a \in FlatCellA, b \in FlatCellB}
FlatRowA == [size : FlatRowSizes, align : AlignPool, cells : FlatCellSeqs]
FlatRowB ==
    {[size |-> Remainder(ZERO, INFINITY), align |-> "Min", cells |-> <<>>],
     [size |-> Remainder(ZERO, INFINITY), align |-> "Max",
      cells |-> <<[size |-> Absolute(R(2)), edit |-> 2, nest |-> 0]>>],
     [size |-> Absolute(R(1)), align |-> "Center",
      cells |-> <<[size |-> Absolute(R(1)), edit |-> 1, nest |-> 0],
                  [size |-> Remainder(ZERO, R(1)), edit |-> 0, nest |-> 0]>>]}
FlatRowSeqs ==
    {<<>>} \cup {<<a>> : a \in FlatRowA} \cup {<<a, b>> : a \in FlatRowA, b \in FlatRowB}
FlatSpacings == {Vec2(ZERO, ZERO), Vec2(R(1), Frac(1, 2))}

\* .cell(size) [.with_margin(m).with_layout(l)] [.nest(grid)]
FlatAddCell(g, d) ==
    LET g1 == cell(g, d.size)
        g2 == IF d.edit # 0
              THEN with_layout(with_margin(g1, FlatMargins[d.edit]), FlatLayout)
              ELSE g1
    IN  IF d.nest = 0 THEN g2 ELSE nest(g2, FlatNest[d.nest])

RECURSIVE FlatAddCells(_, _)
FlatAddCells(g, ds) ==
    IF ds = <<>> THEN g ELSE FlatAddCells(FlatAddCell(g, Head(ds)), Tail(ds))

RECURSIVE FlatAddRows(_, _)
FlatAddRows(g, rows) ==
    IF rows = <<>> THEN g
    ELSE FlatAddRows(FlatAddCells(new_row_align(g, Head(rows).size, Head(rows).align),
                                  Head(rows).cells),
                     Tail(rows))

FlatPool ==
    {rows_as_columns(FlatAddRows(spacing_vec2(new, sp), rows), v) :
        sp \in FlatSpacings, rows \in FlatRowSeqs, v \in BOOLEAN}

InitFlat ==
    /\ phase = "build"
    /\ gb \in FlatPool
    /\ op = [name |-> "new"]
    /\ created = {}
    /\ fresh = FALSE
    /\ rowLast = FALSE
    /\ ncalls = 0
    /\ whole = Rect(Pos2(ZERO, ZERO), Pos2(ZERO, ZERO))
    /\ g_cells = <<>>
    /\ g_pointer = 0
    /\ g_bounds = Pos2(ZERO, ZERO)
    /\ g_panic = NoPanic
    /\ g_ok = 0
    /\ g_last = ""
    /\ s_in = [sizes |-> <<>>, length |-> ZERO, spacing |-> ZERO]
    /\ s_out = <<>>

NextFlat == Show \/ GridCell \/ GridEmpty

SpecFlat == InitFlat /\ [][NextFlat]_vars

-----------------------------------------------------------------------------
(* A third specification for Sizing::to_lengths alone: the sizes, the length *)
(* and the spacing are drawn, then resolved.                                 *)

MaxSizes == 3       \* longest sequence of sizes resolved
SzPool ==
    {Absolute(R(2)),
     Relative(Frac(1, 2), R(1), R(3)),
     Relative(Frac(1, 3), ZERO, INFINITY),
     Remainder(ZERO, INFINITY),
     Remainder(R(2), R(3)),
     Remainder(R(5), INFINITY),
     Remainder(Frac(9, 4), INFINITY),
     Remainder(ZERO, R(1))}
SzLengths == {R(0), R(4), R(7), R(10)}
SzSpacings == {ZERO, R(1)}
SeqsUpTo(S, n) == UNION {[1..k -> S] : k \in 0..n}

InitSizing ==
    /\ phase = "sizing"
    /\ s_in \in [sizes : SeqsUpTo(SzPool, MaxSizes), length : SzLengths, spacing : SzSpacings]
    /\ s_out = <<>>
    /\ gb = new
    /\ op = [name |-> "new"]
    /\ created = {}
    /\ fresh = FALSE
    /\ rowLast = FALSE
    /\ ncalls = 0
    /\ whole = Rect(Pos2(ZERO, ZERO), Pos2(ZERO, ZERO))
    /\ g_cells = <<>>
    /\ g_pointer = 0
    /\ g_bounds = Pos2(ZERO, ZERO)
    /\ g_panic = NoPanic
    /\ g_ok = 0
    /\ g_last = ""

Resolve ==
    /\ phase = "sizing"
    /\ phase' = "sized"
    /\ s_out' = to_lengths(s_in.sizes, s_in.length, s_in.spacing)
    /\ UNCHANGED <<op, builderVars, gridVars, s_in>>

NextSizing == Resolve

SpecSizing == InitSizing /\ [][NextSizing]_vars

-----------------------------------------------------------------------------
(* What the claims speak of: the leaves of a specification, in order *)

\* a path is a sequence of (row, cell) positions, one per level of nesting
RECURSIVE LeafPaths(_)
RECURSIVE LeafPathsFrom(_, _, _)

Prefixed(step, paths) == [k \in 1..Len(paths) |-> <<step>> \o paths[k]]

\* the leaf paths from cell j of row i onwards
LeafPathsFrom(g, i, j) ==
    IF i > Len(g.units) THEN <<>>
    ELSE IF j > Len(g.units[i].cells) THEN LeafPathsFrom(g, i + 1, 1)
    ELSE LET cel == g.units[i].cells[j]
             here == IF cel.group = <<>> THEN << <<(<<i, j>>)>> >>
                     ELSE Prefixed(<<i, j>>, LeafPaths(cel.group[1]))
         IN  here \o LeafPathsFrom(g, i, j + 1)

LeafPaths(g) == LeafPathsFrom(g, 1, 1)

RECURSIVE CellAtPath(_, _)
CellAtPath(g, path) ==
    LET cel == g.units[path[1][1]].cells[path[1][2]]
    IN  IF Len(path) = 1 THEN cel ELSE CellAtPath(cel.group[1], Tail(path))

RECURSIVE SumTo(_, _, _)
\* sum over k < n of (lengths[k] + gap)
SumTo(lengths, gap, n) ==
    IF n <= 1 THEN ZERO
    ELSE Add(SumTo(lengths, gap, n - 1), Add(lengths[n - 1], gap))

\* the rect of cell j of row i of g laid out in whole_rect, in closed form
CellRectAt(g, whole_rect, i, j) ==
    LET row == g.units[i]
        row_lengths == to_lengths(SizesOf(g.units), height(whole_rect), g.spacing.y)
        cell_lengths == to_lengths(SizesOf(row.cells), width(whole_rect), g.spacing.x)
        span == Add(SumTo(cell_lengths, ZERO, Len(cell_lengths) + 1),
                    Mul(g.spacing.x, R(Len(cell_lengths) - 1)))
        offset == CASE row.align = "Min" -> ZERO
                    [] row.align = "Center" -> DivN(Sub(width(whole_rect), span), 2)
                    [] row.align = "Max" -> Sub(width(whole_rect), span)
        x == Add(whole_rect.min.x, Add(offset, SumTo(cell_lengths, g.spacing.x, j)))
        y == Add(whole_rect.min.y, SumTo(row_lengths, g.spacing.y, i))
        w == cell_lengths[j]
        h == row_lengths[i]
        m == row.cells[j].margin
        placed == IF g.row_as_col
                  THEN Rect(Pos2(Add(whole_rect.min.x, Sub(y, whole_rect.min.y)),
                                 Add(whole_rect.min.y, Sub(x, whole_rect.min.x))),
                            Pos2(Add(Add(whole_rect.min.x, Sub(y, whole_rect.min.y)), h),
                                 Add(Add(whole_rect.min.y, Sub(x, whole_rect.min.x)), w)))
                  ELSE Rect(Pos2(x, y), Pos2(Add(x, w), Add(y, h)))
    IN  Rect(Pos2(Add(placed.min.x, m.left), Add(placed.min.y, m.top)),
             Pos2(Sub(placed.max.x, m.right), Sub(placed.max.y, m.bottom)))

RECURSIVE RectOfPath(_, _, _)
RectOfPath(g, whole_rect, path) ==
    LET r == CellRectAt(g, whole_rect, path[1][1], path[1][2])
    IN  IF Len(path) = 1 THEN r
        ELSE RectOfPath(g.units[path[1][1]].cells[path[1][2]].group[1], r, Tail(path))

JustShown == phase = "show" /\ g_ok = 0 /\ g_last = ""

-----------------------------------------------------------------------------
(* C1: flattening yields one rect per leaf cell of the specification, in row *)
(* order then cell order, the leaves of a nested grid standing where the     *)
(* cell that holds it would stand and that cell itself absent; the layouts   *)
(* of get_all_layouts have the same length and order.                        *)
C1_FlattenCardinalityOrder ==
    JustShown =>
        LET rects == as_rects(gb, whole)
            layouts == get_all_layouts(gb)
            paths == LeafPaths(gb)
        IN  /\ Len(rects) = Len(paths)
            /\ Len(layouts) = Len(paths)
            /\ Len(g_cells) = Len(paths)
            /\ \A k \in 1..Len(paths) :
                  /\ CellAtPath(gb, paths[k]).group = <<>>
                  /\ k <= Len(rects) => rects[k] = RectOfPath(gb, whole, paths[k])
                  /\ k <= Len(layouts) => layouts[k] = CellAtPath(gb, paths[k]).layout

\* a shown grid of two rows, the second without cells; the first cell of the
\* first row, edited to its own layout, holds a grid nested two levels deep
\* with three leaves and is followed by a leaf: four descriptors, the
\* holder's layout not among them
C1_Witness ==
    /\ JustShown
    /\ Len(gb.units) = 2
    /\ gb.units[2].cells = <<>>
    /\ Len(gb.units[1].cells) = 2
    /\ gb.units[1].cells[1].group = <<NestDeep>>
    /\ gb.units[1].cells[1].layout = FlatLayout
    /\ gb.units[1].cells[2].group = <<>>
    /\ Len(g_cells) = 4
    /\ \A k \in 1..Len(g_cells) : g_cells[k].layout = Layout_default

-----------------------------------------------------------------------------
(* C8: a Relative or Remainder size with range [min, max], min <= max,       *)
(* resolves to a length within [min, max], whatever the total length, the    *)
(* spacing and the other sizes are.                                          *)
C8_ClampLaw ==
    phase = "sized" =>
        /\ Len(s_out) = Len(s_in.sizes)
        /\ \A i \in 1..Len(s_in.sizes) :
              LET size == s_in.sizes[i]
              IN  (size.kind \in {"Relative", "Remainder"} /\ Le(size.min, size.max))
                      => (Le(size.min, s_out[i]) /\ Le(s_out[i], size.max))

\* resolved with negative space left for the remainders, every Remainder's
\* minimum above the first-pass average, and a bounded Relative beside them
C8_Witness ==
    /\ phase = "sized"
    /\ s_in.length = R(4)
    /\ s_in.spacing = R(1)
    /\ s_in.sizes = <<Remainder(R(5), INFINITY), Relative(Frac(1, 2), R(1), R(3)),
                      Remainder(R(2), R(3))>>
    /\ s_out = <<R(5), R(2), R(2)>>

-----------------------------------------------------------------------------
(* C2: a call of the consumer's cell or empty made once the cursor has       *)
(* consumed all N descriptors (N >= 0) aborts with the diagnostic that       *)
(* reports N as the pre-allocated count, reads no descriptor and leaves the  *)
(* bounds alone.                                                             *)
C2_OverrunAborts ==
    [][(phase = "show" /\ g_pointer >= Len(g_cells))
           => /\ phase' = "panic"
              /\ g_panic' = [kind |-> "Added more cells than were pre-allocated",
                             n |-> Len(g_cells)]
              /\ g_bounds' = g_bounds
              /\ g_pointer' = g_pointer]_vars

-----------------------------------------------------------------------------
(* C3: after k consumer calls that returned (cell or empty, in any mix) the  *)
(* cursor is k and the running bound is, in each component, the maximum of   *)
(* its initial value and rect.max over the first k descriptors; descriptors  *)
(* never consumed do not contribute.                                         *)
RECURSIVE MaxOfFirst(_, _, _)
MaxOfFirst(descs, k, initial) ==
    IF k = 0 THEN initial
    ELSE LET m == MaxOfFirst(descs, k - 1, initial)
             r == descs[k].rect
         IN  Pos2(FMax(m.x, r.max.x), FMax(m.y, r.max.y))

C3_CursorAndBound ==
    phase \in {"show", "panic"} =>
        /\ g_ok <= Len(g_cells)
        /\ g_pointer = g_ok
        /\ g_bounds = MaxOfFirst(g_cells, g_ok, Pos2(ZERO, ZERO))

\* some calls returned, the last an empty whose descriptor ends above the
\* bound reached before it, and a descriptor not yet consumed reaches further
\* than the bound
C3_Witness ==
    /\ phase = "show"
    /\ g_ok >= 2
    /\ g_last = "empty"
    /\ Len(g_cells) > g_ok
    /\ Lt(g_cells[g_ok].rect.max.y, g_bounds.y)
    /\ \E k \in (g_ok + 1)..Len(g_cells) : Lt(g_bounds.x, g_cells[k].rect.max.x)
    /\ Lt(ZERO, g_bounds.x)

-----------------------------------------------------------------------------
(* Helpers of the builder claims *)

\* every row, cell and grid-level setting of g and h agree
SameSpecification(g, h) ==
    /\ g.units = h.units
    /\ g.spacing = h.spacing
    /\ g.row_as_col = h.row_as_col

\* g and h have the same rows with the same number of cells, and agree on the
\* rows' own fields and on the grid-level settings
SameShape(g, h) ==
    /\ Len(g.units) = Len(h.units)
    /\ g.spacing = h.spacing
    /\ g.row_as_col = h.row_as_col
    /\ \A r \in 1..Len(g.units) :
          /\ r <= Len(h.units)
          /\ g.units[r].size = h.units[r].size
          /\ g.units[r].align = h.units[r].align
          /\ Len(g.units[r].cells) = Len(h.units[r].cells)

CellOf(g, idx) == g.units[idx[1]].cells[idx[2]]

-----------------------------------------------------------------------------
(* C4: a with_margin or with_layout call that comes after a row-creation     *)
(* call with no cell-creation call in between modifies no cell.              *)
C4_RowCreationInvalidatesBatch ==
    [][(phase' = "build" /\ rowLast /\ op'.name \in {"with_margin", "with_layout"})
           => gb'.units = gb.units]_vars

-----------------------------------------------------------------------------
(* C5: with_margin (with_layout) called directly after cell or cells, or     *)
(* repeated after such a call, overwrites the margin (layout) of exactly the *)
(* cells that call created, all of them, and leaves every other field and    *)
(* every other cell unchanged.                                               *)
C5_EditsExactlyTheBatch ==
    [][(phase' = "build" /\ fresh /\ op'.name \in {"with_margin", "with_layout"})
           => /\ SameShape(gb, gb')
              /\ \A idx \in AllIdx(gb) :
                    LET old == CellOf(gb, idx)
                        edited == IF op'.name = "with_margin"
                                  THEN [old EXCEPT !.margin = op'.margin]
                                  ELSE [old EXCEPT !.layout = op'.layout]
                    IN  CellOf(gb', idx) = IF idx \in created THEN edited ELSE old]_vars

\* with_margin right after a batch of two cells that follows an earlier cell:
\* the two carry the margin, the earlier one its default
C5_Witness ==
    /\ phase = "build"
    /\ op.name = "with_margin"
    /\ fresh
    /\ Cardinality(created) = 2
    /\ \A idx \in created : CellOf(gb, idx).margin = op.margin
    /\ \E idx \in AllIdx(gb) \ created : CellOf(gb, idx).margin = Margin_same(ZERO)

-----------------------------------------------------------------------------
(* C6: nest attaches the grid to exactly one cell and leaves every other     *)
(* cell unchanged.                                                           *)

\* the most recently added cell of the specification: cells are only ever
\* appended to the last row, so it is the last cell of the last row that has one
LastAddedCell(g) ==
    LET rows == {r \in 1..Len(g.units) : g.units[r].cells # <<>>}
    IN  IF rows = {} THEN <<>>
        ELSE LET r == CHOOSE x \in rows : \A y \in rows : y <= x
             IN  <<r, Len(g.units[r].cells)>>

NestedInto(g, h, target, grid) ==
    /\ SameShape(g, h)
    /\ \A idx \in AllIdx(g) :
          CellOf(h, idx) = IF idx = target THEN [CellOf(g, idx) EXCEPT !.group = <<grid>>]
                           ELSE CellOf(g, idx)

\* C6 as claimed: nest attaches the grid to the most recently added cell of
\* the specification and to no other, and is a no-op only when the
\* specification has no cell
C6_NestMostRecentCell ==
    [][(phase' = "build" /\ op'.name = "nest")
           => NestedInto(gb, gb', LastAddedCell(gb), op'.grid)]_vars

LastCellOfLastRow(g) ==
    IF g.units = <<>> THEN <<>>
    ELSE IF g.units[Len(g.units)].cells = <<>> THEN <<>>
    ELSE <<Len(g.units), Len(g.units[Len(g.units)].cells)>>

\* C6 as amended: nest attaches the grid to the last cell of the most
\* recently added row and to no other, also after a batch cells call, and is
\* a no-op when there is no row or when that row has no cell

C6_NestLastCellOfLastRow ==
    [][(phase' = "build" /\ op'.name = "nest")
           => NestedInto(gb, gb', LastCellOfLastRow(gb), op'.grid)]_vars

\* nest after a batch of two cells: the second holds the grid, the first none
C6_Witness ==
    /\ phase = "build"
    /\ op.name = "nest"
    /\ Cardinality(created) = 2
    /\ \E r \in 1..Len(gb.units) :
          /\ created = {<<r, 1>>, <<r, 2>>}
          /\ gb.units[r].cells[1].group = <<>>
          /\ gb.units[r].cells[2].group = <<op.grid>>

-----------------------------------------------------------------------------
(* C7: builder misuse is a silent no-op: align, cell, cells and nest with no *)
(* row, nest with no cell, with_margin and with_layout with an empty last    *)
(* batch, and nest_at with a row or cell index out of range (a negative one  *)
(* included) leave every row, cell and grid-level setting unchanged.         *)
OutOfRange(g, row, cel) ==
    \/ row < 0
    \/ cel < 0
    \/ row >= Len(g.units)
    \/ (row >= 0 /\ row < Len(g.units) /\ cel >= Len(g.units[row + 1].cells))

C7_MisuseIsNoOp ==
    [][(phase' = "build" /\
        \/ (op'.name \in {"align", "cell", "cells", "nest"} /\ gb.units = <<>>)
        \/ (op'.name = "nest" /\ AllIdx(gb) = {})
        \/ (op'.name \in {"with_margin", "with_layout"} /\ gb.creation_cache = <<>>)
        \/ (op'.name = "nest_at" /\ OutOfRange(gb, op'.row, op'.cel)))
           => SameSpecification(gb, gb')]_vars

\* nest_at with a negative row index on a specification that has a cell at
\* (0, 0): no cell holds a grid afterwards
C7_Witness ==
    /\ phase = "build"
    /\ op.name = "nest_at"
    /\ op.row = -1
    /\ op.cel = 0
    /\ AllIdx(gb) # {}
    /\ \A idx \in AllIdx(gb) : CellOf(gb, idx).group = <<>>

-----------------------------------------------------------------------------
(* C9: the leaf rects produced by flattening are pairwise non-overlapping:   *)
(* no two of them share interior area.                                       *)
FMin(a, b) == IF Lt(b, a) THEN b ELSE a

\* the interiors of r1 and r2 meet
Overlap(r1, r2) ==
    /\ Lt(FMax(r1.min.x, r2.min.x), FMin(r1.max.x, r2.max.x))
    /\ Lt(FMax(r1.min.y, r2.min.y), FMin(r1.max.y, r2.max.y))

PairwiseDisjoint(descs) ==
    \A a, b \in 1..Len(descs) : a < b => ~Overlap(descs[a].rect, descs[b].rect)

NoNestedGrid(g) == \A idx \in AllIdx(g) : CellOf(g, idx).group = <<>>

NonNegativeMargin(m) ==
    Le(ZERO, m.left) /\ Le(ZERO, m.right) /\ Le(ZERO, m.top) /\ Le(ZERO, m.bottom)

NonNegativeLengths(lengths) == \A k \in 1..Len(lengths) : Le(ZERO, lengths[k])

NonNegativeGeometry(g, whole_rect) ==
    /\ Le(ZERO, g.spacing.x)
    /\ Le(ZERO, g.spacing.y)
    /\ NonNegativeLengths(to_lengths(SizesOf(g.units), height(whole_rect), g.spacing.y))
    /\ \A r \in 1..Len(g.units) :
          NonNegativeLengths(
              to_lengths(SizesOf(g.units[r].cells), width(whole_rect), g.spacing.x))
    /\ \A idx \in AllIdx(g) : NonNegativeMargin(CellOf(g, idx).margin)

-----------------------------------------------------------------------------
(* C10: with rows_as_columns set, a grid of one Remainder(0, inf) row that   *)
(* holds one Remainder(0, inf) cell with zero margin yields exactly the      *)
(* bounding rect, also when that rect is not square.                         *)
OneRemainderCell(g) ==
    /\ Len(g.units) = 1
    /\ g.units[1].size = Remainder(ZERO, INFINITY)
    /\ Len(g.units[1].cells) = 1
    /\ g.units[1].cells[1].size = Remainder(ZERO, INFINITY)
    /\ g.units[1].cells[1].margin = Margin_same(ZERO)
    /\ g.units[1].cells[1].group = <<>>

C10_TransposedFillsBounds ==
    (JustShown /\ gb.row_as_col /\ OneRemainderCell(gb))
        => (Len(g_cells) = 1 /\ g_cells[1].rect = whole)

-----------------------------------------------------------------------------
(* C11: in a grid that is not transposed, the rect of cell j of row i before *)
(* its margin is applied has min = bounds.min + (offset_i + sum over k < j   *)
(* of (cell_length_k + spacing.x), sum over r < i of (row_length_r +         *)
(* spacing.y)) and size (cell_length_j, row_length_i), with offset_i = 0 for *)
(* Min, (whole_w - span_i) / 2 for Center, whole_w - span_i for Max and      *)
(* span_i = sum of the row's cell lengths + spacing.x * (count - 1); the     *)
(* offset of one row does not enter the position of any other row.           *)

\* the rect a descriptor had before its cell's margin was applied
Unmargin(rect, m) ==
    Rect(Pos2(Sub(rect.min.x, m.left), Sub(rect.min.y, m.top)),
         Pos2(Add(rect.max.x, m.right), Add(rect.max.y, m.bottom)))

\* the grid that directly holds the leaf at path, and the rect it is laid out in
RECURSIVE GridAtPath(_, _)
GridAtPath(g, path) ==
    IF Len(path) = 1 THEN g
    ELSE GridAtPath(g.units[path[1][1]].cells[path[1][2]].group[1], Tail(path))

RECURSIVE BoundsAtPath(_, _, _)
BoundsAtPath(g, whole_rect, path) ==
    IF Len(path) = 1 THEN whole_rect
    ELSE BoundsAtPath(g.units[path[1][1]].cells[path[1][2]].group[1],
                      CellRectAt(g, whole_rect, path[1][1], path[1][2]), Tail(path))

RECURSIVE SumOf(_)
SumOf(lengths) == IF lengths = <<>> THEN ZERO ELSE Add(Head(lengths), SumOf(Tail(lengths)))

Span(cell_lengths, spacing_x) ==
    Add(SumOf(cell_lengths), Mul(spacing_x, R(Len(cell_lengths) - 1)))

AlignOffset(al, whole_w, span) ==
    IF al = "Min" THEN ZERO
    ELSE IF al = "Center" THEN DivN(Sub(whole_w, span), 2)
    ELSE Sub(whole_w, span)

\* the placement C11 states for cell j of row i of g within bounds
PlacementLaw(g, bounds, i, j) ==
    LET row_lengths == to_lengths(SizesOf(g.units), height(bounds), g.spacing.y)
        cell_lengths == to_lengths(SizesOf(g.units[i].cells), width(bounds), g.spacing.x)
        offset_i == AlignOffset(g.units[i].align, width(bounds),
                                Span(cell_lengths, g.spacing.x))
        min == Pos2(Add(bounds.min.x, Add(offset_i, SumTo(cell_lengths, g.spacing.x, j))),
                    Add(bounds.min.y, SumTo(row_lengths, g.spacing.y, i)))
    IN  Rect(min, Pos2(Add(min.x, cell_lengths[j]), Add(min.y, row_lengths[i])))

C11_PlacementClosedForm ==
    JustShown =>
        LET paths == LeafPaths(gb)
        IN  /\ Len(g_cells) = Len(paths)
            /\ \A k \in 1..Len(paths) :
                  LET path == paths[k]
                      g == GridAtPath(gb, path)
                      bounds == BoundsAtPath(gb, whole, path)
                      i == path[Len(path)][1]
                      j == path[Len(path)][2]
                  IN  ~g.row_as_col =>
                          Unmargin(g_cells[k].rect, g.units[i].cells[j].margin)
                              = PlacementLaw(g, bounds, i, j)

\* a shown grid, not transposed, with spacing: its first row is centred and
\* its two cells stand off the left edge by a positive offset, the first of
\* them behind a margin; the only cell of the second row, aligned Max, ends
\* at the right edge of the bounds before its margin, one row and one
\* spacing down: the offset of the first row has not moved it
C11_Witness ==
    /\ JustShown
    /\ ~gb.row_as_col
    /\ gb.spacing = Vec2(R(1), Frac(1, 2))
    /\ Len(gb.units) = 2
    /\ gb.units[1].align = "Center"
    /\ gb.units[1].size = Absolute(R(2))
    /\ Len(gb.units[1].cells) = 2
    /\ \A c \in 1..2 : gb.units[1].cells[c].group = <<>>
    /\ gb.units[1].cells[1].margin # Margin_same(ZERO)
    /\ gb.units[2].align = "Max"
    /\ Len(gb.units[2].cells) = 1
    /\ gb.units[2].cells[1].size = Absolute(R(2))
    /\ Len(g_cells) = 3
    /\ Lt(whole.min.x, Unmargin(g_cells[1].rect, gb.units[1].cells[1].margin).min.x)
    /\ Lt(g_cells[1].rect.max.x, g_cells[2].rect.min.x)
    /\ Unmargin(g_cells[3].rect, gb.units[2].cells[1].margin)
           = Rect(Pos2(Sub(whole.max.x, R(2)), Add(whole.min.y, Frac(5, 2))),
                  Pos2(whole.max.x, whole.max.y))

-----------------------------------------------------------------------------
(* C12: every Remainder whose minimum exceeds the first-pass average,        *)
(* max(0, floor(available / remainder_count)), resolves to exactly its own   *)
(* minimum, whatever the recomputed average is and however many other        *)
(* Remainder entries there are.                                              *)

\* the space left for the Remainder entries before the adjustment pass
Available(sizes, total, gap) ==
    Sub(total, Add(SumNonRemainder(sizes, total), Mul(gap, R(Len(sizes) - 1))))

FirstPassAverage(sizes, total, gap) ==
    FMax(ZERO, Floor(DivN(Available(sizes, total, gap), CountRemainders(sizes))))

C12_AboveAverageGetsMinimum ==
    phase = "sized" =>
        \A i \in 1..Len(s_in.sizes) :
            LET size == s_in.sizes[i]
            IN  (/\ size.kind = "Remainder"
                 /\ Lt(FirstPassAverage(s_in.sizes, s_in.length, s_in.spacing), size.min))
                    => s_out[i] = size.min

-----------------------------------------------------------------------------
(* C13: when there is at least one Remainder, every Remainder has range      *)
(* [0, inf) and the fixed sum (Absolute lengths + clamped Relative lengths + *)
(* spacing * (count - 1)) does not exceed the total length, all Remainder    *)
(* entries resolve to the same length and the resolved lengths plus          *)
(* spacing * (count - 1) add up to exactly the total length.                 *)

AllRemaindersUnbounded(sizes) ==
    \A i \in 1..Len(sizes) :
        sizes[i].kind = "Remainder" => sizes[i] = Remainder(ZERO, INFINITY)

C13_EvenExactDistribution ==
    (/\ phase = "sized"
     /\ CountRemainders(s_in.sizes) >= 1
     /\ AllRemaindersUnbounded(s_in.sizes)
     /\ Le(ZERO, Available(s_in.sizes, s_in.length, s_in.spacing)))
        => /\ Len(s_out) = Len(s_in.sizes)
           /\ \A i, j \in 1..Len(s_in.sizes) :
                 (s_in.sizes[i].kind = "Remainder" /\ s_in.sizes[j].kind = "Remainder")
                     => s_out[i] = s_out[j]
           /\ Add(SumOf(s_out), Mul(s_in.spacing, R(Len(s_out) - 1))) = s_in.length

\* resolved with spacing, a Relative held to its maximum and two unbounded
\* Remainders that share a leftover which does not divide into whole numbers
C13_Witness ==
    /\ phase = "sized"
    /\ s_in.length = R(10)
    /\ s_in.spacing = R(1)
    /\ s_in.sizes = <<Remainder(ZERO, INFINITY), Relative(Frac(1, 2), R(1), R(3)),
                      Remainder(ZERO, INFINITY)>>
    /\ s_out = <<Frac(5, 2), R(3), Frac(5, 2)>>

====
